---- MODULE Spec2Model ----
(***************************************************************************)
(* Model of the number utilities of Barandis/utils (modules/numbers):      *)
(* wordinal(n), the word-based ordinal of a number.                        *)
(*                                                                         *)
(* Numbers.  A JavaScript number holding an integer is modelled as a       *)
(* record [neg, limbs]: its sign and its magnitude in base 1000, most      *)
(* significant limb first, without leading zero limbs (zero is << >>).     *)
(* The values of interest go up to 2^53 - 1 and beyond, which does not fit *)
(* the model checker's integers; every quantity the code derives from n    *)
(* that is below 10^9 is an ordinary integer.                              *)
(*                                                                         *)
(* Strings.  A JavaScript string is modelled as the sequence of its        *)
(* characters; a template literal is the concatenation of its parts.       *)
(***************************************************************************)
EXTENDS Integers, Sequences, FiniteSets, TLC

VARIABLES
  pc,    \* "idle": no call made yet; "done": a call of wordinal has completed
  arg,   \* the argument of the call
  res,   \* its outcome: see Ret, Thrown
  ord,  \* the latest call of ordinal: its argument and what it returned
  prev,  \* the call of ordinal before it
  events,  \* the emitter's Map: for each type the handlers registered, in order
  onces,  \* the emitter's WeakMap: for each handler the wrapper once made last
  made,  \* the number of wrappers once has made
  fired,  \* the latest firing: its type and the handler calls it made, in order
  hist,  \* what the caller did last with each type and handler
  creations,  \* for each tracked factory, the objects in its WeakSet
  heap,  \* the objects made so far: who made each and what it holds
  asked,  \* the latest call of created: the factory, the object, the answer
  rg,  \* the latest call of range: its arguments and the values it yielded
  arrays,  \* for curry and for curryY, the arguments arrays their calls have built
  partials,  \* the functions the caller has: what each was given and the array it closed over
  cr,  \* the latest call: what was given up to it and what both implementations returned
  inst,  \* the instance the caller has: its class, its own properties, whether it is frozen
  attempt  \* the latest write to the instance: what was tried and whether it threw

numVars == <<pc, arg, res>>
ordVars == <<ord, prev>>
emVars == <<events, onces, made, fired, hist>>
trVars == <<creations, heap, asked>>
rgVars == <<rg>>
cuVars == <<arrays, partials, cr>>
frVars == <<inst, attempt>>

vars == <<numVars, ordVars, emVars, trVars, rgVars, cuVars, frVars>>

\* the variables each part of the library leaves alone
otherThanNumbers == <<ordVars, emVars, trVars, rgVars, cuVars, frVars>>
otherThanOrdinal == <<numVars, emVars, trVars, rgVars, cuVars, frVars>>
otherThanEmitter == <<numVars, ordVars, trVars, rgVars, cuVars, frVars>>
otherThanTracked == <<numVars, ordVars, emVars, rgVars, cuVars, frVars>>
otherThanRange == <<numVars, ordVars, emVars, trVars, cuVars, frVars>>
otherThanCurry == <<numVars, ordVars, emVars, trVars, rgVars, frVars>>
otherThanFrozen == <<numVars, ordVars, emVars, trVars, rgVars, cuVars>>

(***************************************************************************)
(* Bounds of the model.                                                    *)
(***************************************************************************)
\* The number of nested wordinal frames the engine's call stack holds before
\* it raises RangeError (Maximum call stack size exceeded).  A real engine
\* holds thousands; no terminating call nests deeper than 7.
MaxStackDepth == 9

\* The calls of ordinal are made with the integers from -MaxOrdinal to
\* MaxOrdinal + 100.
MaxOrdinal == 125

(***************************************************************************)
(* The lookup tables of wordinal (numbers.js lines 34-50).                 *)
(***************************************************************************)
nums ==
  << <<"z","e","r","o">>,
     <<"o","n","e">>,
     <<"t","w","o">>,
     <<"t","h","r","e","e">>,
     <<"f","o","u","r">>,
     <<"f","i","v","e">>,
     <<"s","i","x">>,
     <<"s","e","v","e","n">>,
     <<"e","i","g","h","t">>,
     <<"n","i","n","e">>,
     <<"t","e","n">>,
     <<"e","l","e","v","e","n">>,
     <<"t","w","e","l","v","e">>,
     <<"t","h","i","r","t","e","e","n">>,
     <<"f","o","u","r","t","e","e","n">>,
     <<"f","i","f","t","e","e","n">>,
     <<"s","i","x","t","e","e","n">>,
     <<"s","e","v","e","n","t","e","e","n">>,
     <<"e","i","g","h","t","e","e","n">>,
     <<"n","i","n","e","t","e","e","n">> >>

ones ==
  << <<"z","e","r","o","t","h">>,
     <<"f","i","r","s","t">>,
     <<"s","e","c","o","n","d">>,
     <<"t","h","i","r","d">>,
     <<"f","o","u","r","t","h">>,
     <<"f","i","f","t","h">>,
     <<"s","i","x","t","h">>,
     <<"s","e","v","e","n","t","h">>,
     <<"e","i","g","h","t","h">>,
     <<"n","i","n","t","h">>,
     <<"t","e","n","t","h">>,
     <<"e","l","e","v","e","n","t","h">>,
     <<"t","w","e","l","f","t","h">>,
     <<"t","h","i","r","t","e","e","n","t","h">>,
     <<"f","o","u","r","t","e","e","n","t","h">>,
     <<"f","i","f","t","e","e","n","t","h">>,
     <<"s","i","x","t","e","e","n","t","h">>,
     <<"s","e","v","e","n","t","e","e","n","t","h">>,
     <<"e","i","g","h","t","e","e","n","t","h">>,
     <<"n","i","n","e","t","e","e","n","t","h">> >>

tens ==
  << <<"t","w","e","n","t">>,
     <<"t","h","i","r","t">>,
     <<"f","o","r","t">>,
     <<"f","i","f","t">>,
     <<"s","i","x","t">>,
     <<"s","e","v","e","n","t">>,
     <<"e","i","g","h","t">>,
     <<"n","i","n","e","t">> >>

groups ==
  << <<"h","u","n","d","r","e","d">>,
     <<"t","h","o","u","s","a","n","d">>,
     <<"m","i","l","l","i","o","n">>,
     <<"b","i","l","l","i","o","n">>,
     <<"t","r","i","l","l","i","o","n">>,
     <<"q","u","a","d","r","i","l","l","i","o","n">> >>

(***************************************************************************)
(* Strings.                                                                *)
(***************************************************************************)
\* What a template literal renders for an array element that does not exist.
undefined == <<"u","n","d","e","f","i","n","e","d">>

SP == <<" ">>
TH == <<"t","h">>

Table(name) ==
  CASE name = "nums"   -> nums
    [] name = "ones"   -> ones
    [] name = "tens"   -> tens
    [] name = "groups" -> groups

\* table[i] for a zero-based index i: the element, or undefined outside the
\* array.
At(name, i) ==
  IF i \in 0..(Len(Table(name)) - 1) THEN Table(name)[i + 1] ELSE undefined

(***************************************************************************)
(* Numbers.                                                                *)
(***************************************************************************)
RECURSIVE Strip(_)
Strip(s) == IF s # <<>> /\ Head(s) = 0 THEN Strip(Tail(s)) ELSE s

Num(s) == [neg |-> FALSE, limbs |-> Strip(s)]
Neg(s) == [neg |-> TRUE, limbs |-> Strip(s)]

RECURSIVE LimbsLess(_, _)
\* a < b for two limb sequences of the same length
LimbsLess(a, b) ==
  IF a = <<>> THEN FALSE
  ELSE IF Head(a) # Head(b) THEN Head(a) < Head(b)
  ELSE LimbsLess(Tail(a), Tail(b))

\* a < b for two magnitudes
MagLess(a, b) ==
  IF Len(a) # Len(b) THEN Len(a) < Len(b) ELSE LimbsLess(a, b)

\* m < n for two numbers
Less(m, n) ==
  IF m.neg /\ ~n.neg THEN m.limbs # <<>> \/ n.limbs # <<>>
  ELSE IF ~m.neg /\ n.neg THEN FALSE
  ELSE IF m.neg THEN MagLess(n.limbs, m.limbs)
  ELSE MagLess(m.limbs, n.limbs)

RECURSIVE ToInt(_)
\* The value of a magnitude of at most three limbs.
ToInt(s) == IF s = <<>> THEN 0 ELSE ToInt(SubSeq(s, 1, Len(s) - 1)) * 1000 + s[Len(s)]

Zero == Num(<<>>)
Twenty == Num(<<20>>)

\* Number.MAX_SAFE_INTEGER, 2^53 - 1 = 9007199254740991
MAX_SAFE_INTEGER == Num(<<9, 7, 199, 254, 740, 991>>)

\* The number of decimal digits of a positive magnitude.
Digits(s) ==
  3 * (Len(s) - 1) + (IF s[1] < 10 THEN 1 ELSE IF s[1] < 100 THEN 2 ELSE 3)

\* The integers for which Math.log10 returns a whole number although the
\* argument is below that power of ten: log10(10^15 - d) = 15 - d * 4.34e-16,
\* and the doubles next to 15 are 1.78e-15 apart, so for d = 1 and d = 2 the
\* nearest double is 15 itself (the value fdlibm's log10, which V8 uses, and
\* the C library's both return).  Below 10^14 and the smaller powers the
\* distance is more than two units in the last place, and 10^16 is above
\* 2^53 - 1.  Every other quotient and difference the function computes is
\* exact in double precision.
RoundsToPowerOfTen(s) ==
  s \in { <<999, 999, 999, 999, 999>>, <<999, 999, 999, 999, 998>> }

\* const mag = Math.floor(Math.log10(n)), for n >= 1
Log10Floor(n) ==
  IF RoundsToPowerOfTen(n.limbs) THEN Digits(n.limbs) ELSE Digits(n.limbs) - 1

\* Math.floor(n / 10 ** e) for e a multiple of three (it is mag - mag % 3)
DivPow10(n, e) ==
  IF e \div 3 >= Len(n.limbs) THEN Zero
  ELSE Num(SubSeq(n.limbs, 1, Len(n.limbs) - e \div 3))

\* n - f * 10 ** e where f = Math.floor(n / 10 ** e): the low e digits of n
SubMultiple(n, e) ==
  IF e \div 3 >= Len(n.limbs) THEN n
  ELSE Num(SubSeq(n.limbs, Len(n.limbs) - e \div 3 + 1, Len(n.limbs)))

(***************************************************************************)
(* Outcomes of a call.  kind is "ok" (a string was returned), "Error" (the *)
(* range check threw) or "RangeError" (the call stack overflowed).         *)
(* lookups is the set of <<table, index>> pairs the call read, depth the   *)
(* number of wordinal frames it nested.                                    *)
(***************************************************************************)
Ret(s, l, d) == [kind |-> "ok", str |-> s, lookups |-> l, depth |-> d]
Thrown(k, l, d) == [kind |-> k, str |-> <<>>, lookups |-> l, depth |-> d]

\* `${prefix}${x === 0 ? 'th' : ` ${sub}`}` where sub is the outcome of
\* wordinal(x); an exception of the nested call propagates.
Compose(prefix, l, sub) ==
  IF sub.kind = "ok"
  THEN Ret(prefix \o SP \o sub.str, l \cup sub.lookups, sub.depth)
  ELSE Thrown(sub.kind, l \cup sub.lookups, sub.depth)

(***************************************************************************)
(* mult, the cardinal helper of wordinal (lines 67-81), on an integer.     *)
(* Returns [str, lookups].                                                 *)
(***************************************************************************)
\* line 72 with the tens digit rounded instead of floored
multTensIndex_rounded(num) == ((num + 5) \div 10) - 2

\* line 72: tens[Math.floor(num / 10) - 2]
multTensIndex(num) == (num \div 10) - 2

\* the text mult appends to the hundreds word when nothing follows it
multHundredsEnd == TH

RECURSIVE mult(_)
mult(num) ==
  IF num < 20 THEN [str |-> At("nums", num), lookups |-> {<<"nums", num>>}]
  ELSE LET rem == num % 10 IN
    IF num < 100
    THEN [str |-> At("tens", multTensIndex(num)) \o <<"y">> \o
                    (IF rem = 0 THEN <<>> ELSE <<"-">> \o At("nums", rem)),
          lookups |-> {<<"tens", multTensIndex(num)>>} \cup
                    (IF rem = 0 THEN {} ELSE {<<"nums", rem>>})]
    ELSE LET x == num - (num \div 100) * 100
             head == At("nums", num \div 100) \o SP \o At("groups", 0)
             hl == {<<"nums", num \div 100>>, <<"groups", 0>>}
         IN IF x = 0
            THEN [str |-> head \o multHundredsEnd, lookups |-> hl]
            ELSE [str |-> head \o SP \o mult(x).str,
                  lookups |-> hl \cup mult(x).lookups]

(***************************************************************************)
(* wordinal (lines 29-84).  d is the number of wordinal frames already on  *)
(* the call stack.                                                         *)
(***************************************************************************)
\* line 30: n < 0 || n > Number.MAX_SAFE_INTEGER
OutOfRange(n) == Less(n, Zero) \/ Less(MAX_SAFE_INTEGER, n)

\* line 53 with the cardinal table read in place of the ordinal one
unitsCase_cardinal(v, d) == Ret(At("nums", v), {<<"nums", v>>}, d)

\* line 53: return ones[n]
unitsCase(v, d) == Ret(At("ones", v), {<<"ones", v>>}, d)

\* line 55 without the offset of the table's first entry, twenty
tensIndex_noOffset(v) == v \div 10

\* line 55: const i = Math.floor(n / 10) - 2
tensIndex(v) == (v \div 10) - 2

\* line 56
tensCase(v, d) ==
  IF v % 10 = 0
  THEN Ret(At("tens", tensIndex(v)) \o <<"i","e","t","h">>,
           {<<"tens", tensIndex(v)>>}, d)
  ELSE Ret(At("tens", tensIndex(v)) \o <<"y","-">> \o At("ones", v % 10),
           {<<"tens", tensIndex(v)>>, <<"ones", v % 10>>}, d)

\* line 60 with the remainder taken of the tens, not of the hundreds
hundredsRest_ofTens(v, f) == v - (v \div 10) * 10

\* line 60: const x = n - f * 10 ** mag, in the hundreds case
hundredsRest(v, f) == v - f * 100

\* line 64: const g = mag % 3 + 1
leadDigits(mag) == (mag % 3) + 1

\* line 65 counting the groups from one
groupIndex_fromOne(mag) == (mag \div 3) + 1

\* line 65: const i = Math.floor(mag / 3)
groupIndex(mag) == mag \div 3

RECURSIVE wordinal(_, _)
wordinal(n, d) ==
  IF d >= MaxStackDepth THEN Thrown("RangeError", {}, d)
  ELSE IF OutOfRange(n) THEN Thrown("Error", {}, d + 1)
  ELSE IF Less(n, Twenty) THEN unitsCase(ToInt(n.limbs), d + 1)
  ELSE LET mag == Log10Floor(n) IN
    IF mag = 1 THEN tensCase(ToInt(n.limbs), d + 1)
    ELSE IF mag = 2
    THEN LET v == ToInt(n.limbs)
             f == v \div 100
             x == hundredsRest(v, f)
             head == At("nums", f) \o SP \o At("groups", 0)
             hl == {<<"nums", f>>, <<"groups", 0>>}
         IN IF x = 0 THEN Ret(head \o TH, hl, d + 1)
            ELSE Compose(head, hl, wordinal(Num(<<x>>), d + 1))
    ELSE LET g == leadDigits(mag)
             i == groupIndex(mag)
             f == ToInt(DivPow10(n, mag - g + 1).limbs)
             m == mult(f)
             x == SubMultiple(n, mag - g + 1)
             head == m.str \o SP \o At("groups", i)
             hl == m.lookups \cup {<<"groups", i>>}
         IN IF x = Zero THEN Ret(head \o TH, hl, d + 1)
            ELSE Compose(head, hl, wordinal(x, d + 1))

(***************************************************************************)
(* The arguments the calls are made with.                                  *)
(***************************************************************************)
RECURSIVE Zeros(_)
Zeros(k) == IF k = 0 THEN <<>> ELSE <<0>> \o Zeros(k - 1)

\* f * 1000^k: one group followed by k empty groups (above 2^53 - 1 for
\* k = 5 and f > 9)
SingleGroupInputs == { Num(<<f>> \o Zeros(k)) : f \in 0..999, k \in 0..5 }

\* The values a group takes in the arguments made of several groups: empty,
\* a unit, a teen, tens with a unit, a bare hundred, hundreds with tens, all
\* nines.
GroupPicks == {0, 1, 12, 21, 100, 110, 999}
TopPicks == {0, 1, 9}

MixedInputs ==
  { Num(<<t>> \o s) : t \in TopPicks, s \in [1..5 -> GroupPicks] }

SpecialInputs ==
  { MAX_SAFE_INTEGER,
    Num(<<9, 7, 199, 254, 740, 992>>),       \* 2^53
    Num(<<6, 0, 0, 0, 0, 0, 0>>),            \* 6000000000000000000
    Neg(<<1>>), Neg(<<1, 0>>), Neg(<<9, 7, 199, 254, 740, 992>>),
    Num(<<1, 100>>), Num(<<2, 160, 0>>), Num(<<32, 10, 2, 400>>),
    Num(<<1, 729>>),
    Num(<<999, 999, 999, 999, 999>>), Num(<<999, 999, 999, 999, 998>>),
    Num(<<999, 999, 999, 999, 997>>), Num(<<99, 999, 999, 999, 999>>),
    Num(<<1, 0, 0, 0, 0, 1>>) }

Inputs == SingleGroupInputs \cup MixedInputs \cup SpecialInputs

(***************************************************************************)
(* The state machine: a call of wordinal with any of the arguments, and    *)
(* the caller dropping the outcome before the next call.                   *)
(***************************************************************************)
NoArg == [neg |-> FALSE, limbs |-> <<>>]
NoRes == [kind |-> "none", str |-> <<>>, lookups |-> {}, depth |-> 0]

InitNumbers ==
  /\ pc = "idle"
  /\ arg = NoArg
  /\ res = NoRes

CallWordinal ==
  /\ pc = "idle"
  /\ \E n \in Inputs :
       /\ arg' = n
       /\ res' = wordinal(n, 0)
  /\ pc' = "done"
  /\ UNCHANGED otherThanNumbers

Forget ==
  /\ pc = "done"
  /\ pc' = "idle"
  /\ arg' = NoArg
  /\ res' = NoRes
  /\ UNCHANGED otherThanNumbers

(***************************************************************************)
(* Vocabulary of the properties: the words the specification names, as     *)
(* plain strings, and how a returned string reads.                         *)
(***************************************************************************)
RECURSIVE Text(_)
\* the string a sequence of characters spells
Text(s) ==
  IF Len(s) = 0 THEN ""
  ELSE IF Len(s) = 1 THEN s[1]
  ELSE Text(SubSeq(s, 1, Len(s) \div 2))
         \o Text(SubSeq(s, (Len(s) \div 2) + 1, Len(s)))

CardinalWords ==
  << "zero", "one", "two", "three", "four", "five", "six", "seven", "eight",
     "nine", "ten", "eleven", "twelve", "thirteen", "fourteen", "fifteen",
     "sixteen", "seventeen", "eighteen", "nineteen" >>

OrdinalWords ==
  << "zeroth", "first", "second", "third", "fourth", "fifth", "sixth",
     "seventh", "eighth", "ninth", "tenth", "eleventh", "twelfth",
     "thirteenth", "fourteenth", "fifteenth", "sixteenth", "seventeenth",
     "eighteenth", "nineteenth" >>

\* stems of the tens digits 2..9
Stems ==
  << "twent", "thirt", "fort", "fift", "sixt", "sevent", "eight", "ninet" >>

\* names of the groups 1000^1 .. 1000^5
GroupNames == << "thousand", "million", "billion", "trillion", "quadrillion" >>

\* the English cardinal phrase of f in 1..999
EnglishCardinal(f) ==
  LET below100(v) ==
        IF v < 20 THEN CardinalWords[v + 1]
        ELSE Stems[(v \div 10) - 1] \o "y" \o
               (IF v % 10 = 0 THEN "" ELSE "-" \o CardinalWords[(v % 10) + 1])
  IN IF f < 100 THEN below100(f)
     ELSE CardinalWords[(f \div 100) + 1] \o " hundred" \o
            (IF f % 100 = 0 THEN "" ELSE " " \o below100(f % 100))

\* n is an integer with 0 <= n <= 9007199254740991
Accepted(n) ==
  /\ ~n.neg
  /\ \/ Len(n.limbs) < 6
     \/ Len(n.limbs) = 6 /\ ~LimbsLess(MAX_SAFE_INTEGER.limbs, n.limbs)

\* n is an accepted integer with n >= 1000
AcceptedGroups(n) == Accepted(n) /\ Len(n.limbs) >= 2

\* n is an accepted integer below 1000 with lo <= n <= hi
Small(n, lo, hi) ==
  /\ ~n.neg
  /\ Len(n.limbs) <= 1
  /\ ToInt(n.limbs) \in lo..hi

\* the words of s: the maximal runs of characters outside seps, in order
Split(s, seps) ==
  LET starts == { k \in 1..Len(s) :
                    s[k] \notin seps /\ (k = 1 \/ s[k - 1] \in seps) }
      ends == { k \in 1..Len(s) :
                  s[k] \notin seps /\ (k = Len(s) \/ s[k + 1] \in seps) }
      nth(S, j) == CHOOSE k \in S : Cardinality({ m \in S : m < k }) = j - 1
  IN [j \in 1..Cardinality(starts) |->
        SubSeq(s, nth(starts, j), nth(ends, j))]

\* the words of a phrase, hyphenated compounds taken apart
Words(s) ==
  LET w == Split(s, {" ", "-"}) IN [k \in 1..Len(w) |-> Text(w[k])]

\* the words of a phrase as separated by spaces
SpaceWords(s) ==
  LET w == Split(s, {" "}) IN [k \in 1..Len(w) |-> Text(w[k])]

Range(f) == { f[k] : k \in DOMAIN f }

\* the words that mark an ordinal
OrdinalMarkers ==
  Range(OrdinalWords) \cup { Stems[k] \o "ieth" : k \in 1..8 }
    \cup { "hundredth" } \cup { GroupNames[k] \o "th" : k \in 1..5 }

\* the number of positions of the word sequence w holding a word of set S
Count(w, S) == Cardinality({ k \in 1..Len(w) : w[k] \in S })

(***************************************************************************)
(* Properties of wordinal.  Each is stated of the state after a call:      *)
(* arg is the argument and res the outcome.                                *)
(***************************************************************************)
Done == pc = "done"

\* the group count, leading group and remainder of n >= 1000 as the
\* specification defines them: i complete three-digit groups below the
\* leading group, f = floor(n / 1000^i), x = n - f * 1000^i
GroupsBelow(n) == Len(n.limbs) - 1
LeadingGroup(n) == n.limbs[1]
Remainder(n) == Num(Tail(n.limbs))

\* C1: wordinal(n) throws and returns no string for every n < 0 and every
\* n > 9007199254740991, before any word is produced, and returns a string
\* without throwing for every integer n with 0 <= n <= 9007199254740991.
C1_RangeContract ==
  Done =>
    IF Accepted(arg)
    THEN res.kind = "ok"
    ELSE res.kind = "Error" /\ res.str = <<>> /\ res.lookups = {}

\* C2: for n = f * 1000^k with 1 <= f <= 999, 1 <= k <= 5 and
\* n <= 9007199254740991, wordinal(n) is the English cardinal phrase of f, a
\* space, the name of group k and 'th', with nothing after it.
C2_ExactGroupMultiple ==
  (Done /\ AcceptedGroups(arg) /\ Remainder(arg) = Zero) =>
    /\ res.kind = "ok"
    /\ Text(res.str) =
         EnglishCardinal(LeadingGroup(arg)) \o " "
           \o GroupNames[GroupsBelow(arg)] \o "th"

\* C3: for 1000 <= n <= 9007199254740991 the result of wordinal(n) holds
\* exactly one ordinal marker, and that marker is its last word: every
\* group but the last nonzero segment is rendered as a cardinal.
C3_OneOrdinalMarkerAtEnd ==
  (Done /\ AcceptedGroups(arg)) =>
    /\ res.kind = "ok"
    /\ LET w == Words(res.str) IN
         /\ Len(w) > 0
         /\ Count(w, OrdinalMarkers) = 1
         /\ w[Len(w)] \in OrdinalMarkers

\* the words naming group k, bare or carrying the ordinal 'th'
GroupWord(k) == { GroupNames[k], GroupNames[k] \o "th" }
AnyGroupWord == UNION { GroupWord(k) : k \in 1..5 }

\* the number of characters of the first j words of w and the spaces
\* between them
RECURSIVE PrefixLen(_, _)
PrefixLen(w, j) ==
  IF j = 0 THEN 0
  ELSE PrefixLen(w, j - 1) + Len(w[j]) + (IF j = 1 THEN 0 ELSE 1)

\* C4: for 1000 <= n <= 9007199254740991, with i, f and x as above, the
\* group name that follows the leading-group phrase of wordinal(n) is the
\* name of group i, and when x is not 0 the text after the group name is
\* one space followed by wordinal(x).
C4_GroupNameThenRemainder ==
  (Done /\ AcceptedGroups(arg)) =>
    /\ res.kind = "ok"
    /\ LET w == SpaceWords(res.str)
           at == { k \in 1..Len(w) : w[k] \in AnyGroupWord }
       IN /\ at # {}
          /\ LET j == CHOOSE k \in at : \A m \in at : k <= m
                 sub == wordinal(Remainder(arg), 0)
             IN /\ w[j] \in GroupWord(GroupsBelow(arg))
                /\ Remainder(arg) # Zero =>
                     /\ w[j] = GroupNames[GroupsBelow(arg)]
                     /\ sub.kind = "ok"
                     /\ LET p == PrefixLen(w, j) IN
                          SubSeq(res.str, p + 1, Len(res.str)) = SP \o sub.str

\* C5: for 100 <= n <= 999, with f = floor(n / 100) and r = n - 100 f,
\* wordinal(n) is the cardinal word of f followed by ' hundredth' when
\* r = 0 and by ' hundred ' and wordinal(r) when r > 0.
C5_Hundreds ==
  (Done /\ Small(arg, 100, 999)) =>
    LET n == ToInt(arg.limbs)
        f == n \div 100
        r == n - 100 * f
    IN /\ res.kind = "ok"
       /\ Text(res.str) =
            IF r = 0 THEN CardinalWords[f + 1] \o " hundredth"
            ELSE CardinalWords[f + 1] \o " hundred "
                   \o Text(wordinal(Num(<<r>>), 0).str)

\* wordinal(102) has returned 'one hundred second'
C5_Witness ==
  /\ Done
  /\ arg = Num(<<102>>)
  /\ Text(res.str) = "one hundred second"

\* C6: for 20 <= n <= 99, wordinal(n) is the stem of the tens digit
\* followed by 'ieth' when n mod 10 = 0, and by 'y-' and the ordinal units
\* word of n mod 10 otherwise.
C6_Tens ==
  (Done /\ Small(arg, 20, 99)) =>
    LET n == ToInt(arg.limbs) IN
      /\ res.kind = "ok"
      /\ Text(res.str) =
           IF n % 10 = 0 THEN Stems[(n \div 10) - 1] \o "ieth"
           ELSE Stems[(n \div 10) - 1] \o "y-" \o OrdinalWords[(n % 10) + 1]

\* wordinal(21) has returned 'twenty-first'
C6_Witness ==
  /\ Done
  /\ arg = Num(<<21>>)
  /\ Text(res.str) = "twenty-first"

\* C7: for 0 <= n <= 19, wordinal(n) is the n-th entry of the ordinal
\* units table, zeroth .. nineteenth.
C7_Units ==
  (Done /\ Small(arg, 0, 19)) =>
    /\ res.kind = "ok"
    /\ Text(res.str) = OrdinalWords[ToInt(arg.limbs) + 1]

\* wordinal(13) has returned 'thirteenth'
C7_Witness ==
  /\ Done
  /\ arg = Num(<<13>>)
  /\ Text(res.str) = "thirteenth"

\* the number of groups of n whose hundreds digit is not 0
Hundreds(n) == Cardinality({ k \in 1..Len(n.limbs) : n.limbs[k] >= 100 })

\* the group 1000^k of n is not all zeros
GroupSet(n, k) == k < Len(n.limbs) /\ n.limbs[Len(n.limbs) - k] # 0

\* C8: for 1 <= n <= 9007199254740991, wordinal(n) holds neither 'zero'
\* nor 'zeroth', and a group name appears only for a group whose digits are
\* not all zero.
C8_ZeroGroupsSkipped ==
  (Done /\ Accepted(arg) /\ arg # Zero) =>
    /\ res.kind = "ok"
    /\ LET w == Words(res.str) IN
         /\ Count(w, {"zero", "zeroth"}) = 0
         /\ Count(w, {"hundred", "hundredth"}) <= Hundreds(arg)
         /\ \A k \in 1..5 :
              Count(w, GroupWord(k)) <= (IF GroupSet(arg, k) THEN 1 ELSE 0)

\* C9: wordinal(9007199254740991) is exactly the phrase below.
C9_MaxSafeInteger ==
  (Done /\ arg = MAX_SAFE_INTEGER) =>
    /\ res.kind = "ok"
    /\ Text(res.str) =
         "nine quadrillion seven trillion one hundred ninety-nine billion "
           \o "two hundred fifty-four million seven hundred forty thousand "
           \o "nine hundred ninety-first"

\* wordinal(9007199254740991) has returned a phrase
C9_Witness ==
  /\ Done
  /\ arg = MAX_SAFE_INTEGER
  /\ res.kind = "ok"
  /\ Len(res.str) > 100

\* C10: for 0 <= n <= 9007199254740991 every table index computed by
\* wordinal, its nested calls and its cardinal helper lies inside the
\* table: units 0..19, tens stems 0..7, group names 0..5.
C10_LookupsInsideTables ==
  (Done /\ Accepted(arg)) =>
    \A l \in res.lookups :
      \/ l[1] \in {"nums", "ones"} /\ l[2] \in 0..19
      \/ l[1] = "tens" /\ l[2] \in 0..7
      \/ l[1] = "groups" /\ l[2] \in 0..5

\* wordinal(9007199254740991) has read the last group name, the last tens
\* stem and entries of both units tables
C10_Witness ==
  /\ Done
  /\ arg = MAX_SAFE_INTEGER
  /\ { <<"groups", 5>>, <<"groups", 0>>, <<"tens", 7>>, <<"nums", 9>>,
       <<"ones", 1>> } \subseteq res.lookups

\* What wordinal computes for its argument at lines 51 and 64-82: mag, the
\* exponent mag - g + 1, f and x.
TopMag == Log10Floor(arg)
TopExponent == TopMag - leadDigits(TopMag) + 1
TopF == DivPow10(arg, TopExponent)
TopX == SubMultiple(arg, TopExponent)

\* C24: for 1000 <= n <= 9007199254740991, mag is the number of decimal
\* digits of n less one and, with g = mag mod 3 + 1, the leading group
\* f = floor(n / 10^(mag-g+1)) lies in 1..999 and has g digits, the exponent
\* mag-g+1 is a multiple of 3, and x = n - f * 10^(mag-g+1) lies in
\* 0 .. 10^(mag-g+1) - 1.
C24_LeadingGroupValue ==
  (Done /\ AcceptedGroups(arg)) =>
    /\ TopMag = Digits(arg.limbs) - 1
    /\ Len(TopF.limbs) = 1
    /\ ToInt(TopF.limbs) \in 1..999
    /\ Digits(TopF.limbs) = leadDigits(TopMag)
    /\ TopExponent % 3 = 0
    /\ ~TopX.neg
    /\ Len(TopX.limbs) <= TopExponent \div 3

\* lines 67-81: the mult frames that mult(num) nests
RECURSIVE multNesting(_)
multNesting(num) ==
  IF num < 100 \/ num - (num \div 100) * 100 = 0
    THEN 1
    ELSE 1 + multNesting(num - (num \div 100) * 100)

\* C25: for 0 <= n <= 9007199254740991 wordinal returns: a recursive call
\* is made on a remainder x with 0 < x < n inside the accepted range, the
\* calls of wordinal nest at most 7 deep, and mult calls itself at most
\* once, on a value below 100.
C25_Terminates ==
  (Done /\ Accepted(arg)) =>
    /\ res.kind = "ok"
    /\ res.depth <= 7
    /\ (AcceptedGroups(arg) /\ TopX # Zero) => (Less(TopX, arg) /\ Accepted(TopX))
    /\ AcceptedGroups(arg) =>
         /\ multNesting(ToInt(TopF.limbs)) <= 2
         /\ ToInt(TopF.limbs) - (ToInt(TopF.limbs) \div 100) * 100 < 100

(***************************************************************************)
(* ordinal (numbers.js lines 15-19), on integers the engine prints digit   *)
(* for digit.  A string is a sequence of characters as above.              *)
(***************************************************************************)
\* the value of an array element that does not exist
NoValue == <<"(undefined)">>

\* the value of a number added to undefined
NotANumber == <<"(NaN)">>

\* line 16: const suffixes = ['th', 'st', 'nd', 'rd']
suffixes == << <<"t","h">>, <<"s","t">>, <<"n","d">>, <<"r","d">> >>

\* suffixes[i]: an element for i in 0..3, undefined for any other number
suffixAt(i) == IF i \in 0..3 THEN suffixes[i + 1] ELSE NoValue

\* a % b of JavaScript, for b > 0: the remainder carries the sign of a
JsRem(a, b) == IF a >= 0 THEN a % b ELSE -((-a) % b)

\* a ?? b
Nullish(a, b) == IF a = NoValue THEN b ELSE a

Digit == <<"0", "1", "2", "3", "4", "5", "6", "7", "8", "9">>

RECURSIVE DigitsOf(_)
\* the decimal digits of a natural number
DigitsOf(n) ==
  IF n < 10 THEN <<Digit[n + 1]>>
  ELSE DigitsOf(n \div 10) \o <<Digit[(n % 10) + 1]>>

\* the string a number converts to when it is added to a string
NumberToString(n) == IF n < 0 THEN <<"-">> \o DigitsOf(-n) ELSE DigitsOf(n)

\* n + s: concatenation when s is a string, NaN when s is undefined
Plus(n, s) == IF s = NoValue THEN NotANumber ELSE NumberToString(n) \o s

\* line 17 without the reduction to the last two digits
ordinalV_whole(n) == n

\* line 17: const v = n % 100
ordinalV(n) == JsRem(n, 100)

\* line 18 with the tens not taken off before the last digit is read
ordinalFirst_units(v) == JsRem(v, 10)

\* line 18: (v - 20) % 10, the index read first
ordinalFirst(v) == JsRem(v - 20, 10)

\* line 18 without its last alternative
ordinalLast_missing == NoValue

\* line 18: suffixes[0], the last alternative
ordinalLast == suffixAt(0)

\* line 18: suffixes[(v - 20) % 10] ?? suffixes[v] ?? suffixes[0]
ordinalSuffix(n) ==
  LET v == ordinalV(n) IN
    Nullish(suffixAt(ordinalFirst(v)), Nullish(suffixAt(v), ordinalLast))

ordinal(n) == Plus(n, ordinalSuffix(n))

\* The arguments of the calls of ordinal: -MaxOrdinal .. MaxOrdinal + 100
OrdinalInputs == (0 - MaxOrdinal)..(MaxOrdinal + 100)

NoCall == [n |-> 0, out |-> <<>>, made |-> FALSE]

InitOrdinal ==
  /\ ord = NoCall
  /\ prev = NoCall

\* A call of ordinal; the outcome of the call before it is kept beside it.
\* The function keeps nothing from one call to the next, so the machine
\* follows a first and a second call.
CallOrdinal ==
  /\ ~prev.made
  /\ \E n \in OrdinalInputs :
       ord' = [n |-> n, out |-> ordinal(n), made |-> TRUE]
  /\ prev' = ord
  /\ UNCHANGED otherThanOrdinal

(***************************************************************************)
(* Properties of ordinal.  ord is the latest call and prev the one before. *)
(***************************************************************************)
RECURSIVE DecimalText(_)
\* the decimal text of an integer
DecimalText(n) ==
  IF n < 0 THEN "-" \o DecimalText(0 - n)
  ELSE IF n < 10 THEN Digit[n + 1]
  ELSE DecimalText(n \div 10) \o Digit[(n % 10) + 1]

\* the suffix English gives the ordinal of n >= 0
EnglishSuffix(n) ==
  IF n % 10 = 1 /\ n % 100 # 11 THEN "st"
  ELSE IF n % 10 = 2 /\ n % 100 # 12 THEN "nd"
  ELSE IF n % 10 = 3 /\ n % 100 # 13 THEN "rd"
  ELSE "th"

\* what a call returned after the decimal text of its argument
SuffixOf(c) ==
  Text(SubSeq(c.out, Len(NumberToString(c.n)) + 1, Len(c.out)))

\* C11: for every integer n >= 0, ordinal(n) is the decimal text of n
\* followed by 'st' if n mod 10 = 1 and n mod 100 is not 11, 'nd' if
\* n mod 10 = 2 and n mod 100 is not 12, 'rd' if n mod 10 = 3 and n mod 100
\* is not 13, and 'th' otherwise.
C11_EnglishSuffix ==
  (ord.made /\ ord.n >= 0) =>
    Text(ord.out) = DecimalText(ord.n) \o EnglishSuffix(ord.n)

\* ordinal(121) has returned '121st' after ordinal(111) returned '111th'
C11_Witness ==
  /\ ord.made /\ ord.n = 121 /\ Text(ord.out) = "121st"
  /\ prev.made /\ prev.n = 111 /\ Text(prev.out) = "111th"

\* C12 as stated: for all integers n and m, negative ones included, with
\* n mod 100 = m mod 100, ordinal(n) and ordinal(m) end in the same suffix.
C12_SameResidueSameSuffix ==
  (ord.made /\ prev.made /\ ord.n % 100 = prev.n % 100) =>
    SuffixOf(ord) = SuffixOf(prev)

\* C12 as amended: the suffix depends only on the remainder n % 100 as
\* JavaScript takes it, with the sign of n: two integers with the same such
\* remainder end in the same suffix, and every negative integer gets 'th'.
C12_SameRemainderSameSuffix ==
  /\ (ord.made /\ prev.made /\ JsRem(ord.n, 100) = JsRem(prev.n, 100)) =>
       SuffixOf(ord) = SuffixOf(prev)
  /\ (ord.made /\ ord.n < 0) => SuffixOf(ord) = "th"

\* ordinal(-121) and ordinal(-21), of the same remainder -21, both returned
\* with 'th'
C12_Witness ==
  /\ ord.made /\ ord.n = -121 /\ Text(ord.out) = "-121th"
  /\ prev.made /\ prev.n = -21 /\ Text(prev.out) = "-21th"

\* C13: for every integer n, negative ones included, ordinal returns the
\* decimal text of n followed by exactly one of 'th', 'st', 'nd', 'rd'.
C13_AlwaysASuffix ==
  ord.made =>
    \E s \in {"th", "st", "nd", "rd"} :
      Text(ord.out) = DecimalText(ord.n) \o s

\* ordinal(-1) has returned '-1th'
C13_Witness ==
  /\ ord.made /\ ord.n = -1 /\ Text(ord.out) = "-1th"

(***************************************************************************)
(* customElement: the lifecycle emitter of one element.                    *)
(*                                                                         *)
(* A function value is a record: a caller's handler is Handler(name), the  *)
(* wrapper that the k-th call of once builds is wrapped(type, handler, k). *)
(* Two function values are the same function exactly when the records are *)
(* equal.  A handler records its call and does nothing else.  An object    *)
(* literal is the set of its <<key, value>> pairs.                         *)
(***************************************************************************)
ADOPTED == "adopted"
CHANGED == "changed"
CONNECTED == "connected"
DISCONNECTED == "disconnected"

Types == {ADOPTED, CHANGED, CONNECTED, DISCONNECTED}

\* the types the caller registers handlers for (lines 114-115); the element
\* fires all of Types
Registered == {CONNECTED, CHANGED}

\* the handler the caller has at hand (line 100)
HandlerNames == {"render"}

\* once is called at most MaxOnce times
MaxOnce == 2

\* the observed attribute and the values it takes
AttributeNames == {"datetime"}
AttributeValues == {"2019", "2020"}

Handler(name) == [name |-> name, id |-> 0, type |-> ""]
Handlers == {Handler(name) : name \in HandlerNames}

\* new Map(), new WeakMap()
Empty == [k \in {} |-> <<>>]

\* map.set(key, value)
MapSet(map, key, value) ==
  [k \in DOMAIN map \cup {key} |-> IF k = key THEN value ELSE map[k]]

\* set.add(x): a Set keeps its members in the order they were added
SetAdd(set, x) ==
  IF \E i \in DOMAIN set : set[i] = x THEN set ELSE Append(set, x)

\* set.delete(x)
SetDelete(set, x) == SelectSeq(set, LAMBDA y : y # x)

\* line 142: a type without an entry gets a fresh Set, which is not stored
getEvents(evts, type) == IF type \in DOMAIN evts THEN evts[type] ELSE <<>>

\* line 150
on(evts, type, handler) == MapSet(evts, type, SetAdd(getEvents(evts, type), handler))

\* line 154: onces.get(handler) ?? handler
offTarget_handler(wraps, handler) == handler

offTarget(wraps, handler) ==
  IF handler \in DOMAIN wraps THEN wraps[handler] ELSE handler

\* line 154
off(evts, wraps, type, handler) ==
  IF type \in DOMAIN evts
    THEN [evts EXCEPT ![type] = SetDelete(@, offTarget(wraps, handler))]
    ELSE evts

\* line 158: the function that once builds
wrapped(type, handler, k) == [name |-> handler.name, id |-> k, type |-> type]

\* lines 176, 180, 184, 188: the objects handed to FIRE
adoptedEvent == {<<"type", ADOPTED>>}
connectedEvent == {<<"type", CONNECTED>>}
disconnectedEvent == {<<"type", DISCONNECTED>>}
changedEvent(attributeName, oldValue, newValue) ==
  {<<"type", CHANGED>>, <<"attributeName", attributeName>>,
   <<"newValue", newValue>>, <<"oldValue", oldValue>>}

\* line 144: ({ type, ...payload })
typeOf(event) == (CHOOSE p \in event : p[1] = "type")[2]

restOf_whole(event) == event

restOf(event) == {p \in event : p[1] # "type"}

\* lines 145, 158-161: one handler call.  A caller's handler records the
\* call; a wrapper calls its handler and takes itself off.
invoke(handler, payload, st, wraps) ==
  LET called == [st EXCEPT !.calls =
                   Append(@, [name |-> handler.name, via |-> handler.id, got |-> payload])]
  IN  IF handler.id = 0
        THEN called
        ELSE [called EXCEPT !.events = off(@, wraps, handler.type, handler)]

\* line 145: forEach over the copy of the Set made before the first call
RECURSIVE forEach(_, _, _, _)
forEach(list, payload, st, wraps) ==
  IF list = <<>>
    THEN st
    ELSE forEach(Tail(list), payload, invoke(Head(list), payload, st, wraps), wraps)

\* lines 144-146
FIRE(event, evts, wraps) ==
  forEach(getEvents(evts, typeOf(event)), restOf(event),
          [events |-> evts, calls |-> <<>>], wraps)

(***************************************************************************)
(* What the caller did, kept beside the emitter to state the properties:   *)
(*   onned  the <<type, handler name>> given to on and not to off since    *)
(*   offed  those given to off and not to on or once since                 *)
(*   known  those ever given to on or once                                 *)
(*   wr     for the k-th call of once: its type and handler, the calls of  *)
(*          the handler that it made, whether its type has fired since,    *)
(*          and whether off was called for its type and handler before the *)
(*          first of these firings                                         *)
(***************************************************************************)
NoHist == [onned |-> {}, offed |-> {}, known |-> {}, wr |-> <<>>]

NoFiring == [type |-> "", event |-> {}, calls |-> <<>>]

CountCalls(calls, k) == Cardinality({i \in DOMAIN calls : calls[i].via = k})

InitEmitter ==
  /\ events = Empty
  /\ onces = Empty
  /\ made = 0
  /\ fired = NoFiring
  /\ hist = NoHist

\* emitter.on(type, handler)
On ==
  \E type \in Registered, name \in HandlerNames :
    /\ events' = on(events, type, Handler(name))
    /\ hist' = [hist EXCEPT !.onned = @ \cup {<<type, name>>},
                            !.offed = @ \ {<<type, name>>},
                            !.known = @ \cup {<<type, name>>}]
    /\ fired' = NoFiring
    /\ UNCHANGED <<onces, made>>
    /\ UNCHANGED otherThanEmitter

\* emitter.off(type, handler)
Off ==
  \E type \in Registered, name \in HandlerNames :
    /\ events' = off(events, onces, type, Handler(name))
    /\ hist' = [hist EXCEPT !.onned = @ \ {<<type, name>>},
                            !.offed = @ \cup {<<type, name>>},
                            !.wr = [k \in DOMAIN @ |->
                                      IF @[k].type = type /\ @[k].name = name /\ ~@[k].seen
                                        THEN [@[k] EXCEPT !.cancelled = TRUE]
                                        ELSE @[k]]]
    /\ fired' = NoFiring
    /\ UNCHANGED <<onces, made>>
    /\ UNCHANGED otherThanEmitter

\* emitter.once(type, handler)
Once ==
  /\ made < MaxOnce
  /\ \E type \in Registered, name \in HandlerNames :
       LET w == wrapped(type, Handler(name), made + 1) IN
         /\ onces' = MapSet(onces, Handler(name), w)
         /\ events' = on(events, type, w)
         /\ hist' = [hist EXCEPT !.offed = @ \ {<<type, name>>},
                                 !.known = @ \cup {<<type, name>>},
                                 !.wr = Append(@, [type |-> type, name |-> name, calls |-> 0,
                                                   seen |-> FALSE, cancelled |-> FALSE])]
  /\ made' = made + 1
  /\ fired' = NoFiring
  /\ UNCHANGED otherThanEmitter

\* a lifecycle callback of the element: this[FIRE](event)
Callback(event) ==
  LET st == FIRE(event, events, onces) IN
    /\ events' = st.events
    /\ fired' = [type |-> typeOf(event), event |-> event, calls |-> st.calls]
    /\ hist' = [hist EXCEPT !.wr = [k \in DOMAIN @ |->
                  IF @[k].type = typeOf(event)
                    THEN [@[k] EXCEPT !.calls = @ + CountCalls(st.calls, k),
                                      !.seen = TRUE]
                    ELSE @[k]]]
    /\ UNCHANGED <<onces, made>>
    /\ UNCHANGED otherThanEmitter

adoptedCallback == Callback(adoptedEvent)

attributeChangedCallback ==
  \E attributeName \in AttributeNames, oldValue \in AttributeValues, newValue \in AttributeValues :
    Callback(changedEvent(attributeName, oldValue, newValue))

connectedCallback == Callback(connectedEvent)

disconnectedCallback == Callback(disconnectedEvent)

NextEmitter ==
  \/ On
  \/ Off
  \/ Once
  \/ adoptedCallback
  \/ attributeChangedCallback
  \/ connectedCallback
  \/ disconnectedCallback

(***************************************************************************)
(* Properties of the emitter.                                              *)
(***************************************************************************)
Fired == fired.type # ""

\* the names of the handlers called in the latest firing
Called == {fired.calls[i].name : i \in DOMAIN fired.calls}

\* the calls of a handler made in the latest firing by the Set holding the
\* handler itself
Direct(name) == {i \in DOMAIN fired.calls : fired.calls[i].name = name /\ fired.calls[i].via = 0}

\* C15: once off(type, h) has returned, no later firing of that type calls h
\* until h is given to on or once again, also when h was earlier given to once.
C15_OffUnregisters ==
  Fired => \A name \in HandlerNames :
             <<fired.type, name>> \in hist.offed => name \notin Called

\* C16: each call once(type, h) makes exactly one call of h, at the first
\* firing of that type after it, and none at a later firing; and none at all
\* if off(type, h) was called before that first firing.
C16_OnceCallsOnce ==
  \A k \in DOMAIN hist.wr :
    hist.wr[k].calls = IF hist.wr[k].seen /\ ~hist.wr[k].cancelled THEN 1 ELSE 0

\* what a handler of the latest firing is to receive
Expected ==
  IF fired.type = CHANGED
    THEN {p \in fired.event : p[1] \in {"attributeName", "oldValue", "newValue"}}
    ELSE {}

\* C17: a handler given to on(type, h) is called once at every firing of that
\* type until it is given to off, and a firing calls no handler that was
\* never registered for its type; a 'changed' handler receives exactly the
\* attributeName, oldValue and newValue of the callback; a firing of a type
\* with no handler calls nothing.
C17_OnCallsAtEveryFiring ==
  Fired =>
    /\ \A name \in HandlerNames :
         <<fired.type, name>> \in hist.onned => Cardinality(Direct(name)) = 1
    /\ \A name \in Called : <<fired.type, name>> \in hist.known
    /\ \A i \in DOMAIN fired.calls :
         /\ fired.calls[i].got = Expected
         /\ fired.type = CHANGED =>
              /\ {p[1] : p \in fired.calls[i].got} = {"attributeName", "oldValue", "newValue"}
              /\ Cardinality(fired.calls[i].got) = 3
    /\ (\A name \in HandlerNames : <<fired.type, name>> \notin hist.known) =>
         /\ fired.calls = <<>>
         /\ getEvents(events, fired.type) = <<>>

C17_Witness ==
  /\ Fired
  /\ fired.type = CHANGED
  /\ hist.onned = {<<CHANGED, "render">>}
  /\ Cardinality(Direct("render")) = 1
  /\ Called = {"render"}
  /\ fired.calls[1].got =
       {<<"attributeName", "datetime">>, <<"oldValue", "2019">>, <<"newValue", "2020">>}

(***************************************************************************)
(* tracked: the factories of its documentation,                            *)
(*   createObject    = tracked(prop => ({ prop }))                         *)
(*   createAugmented = tracked((prop, other) =>                            *)
(*                       ({ ...createObject(prop), other }))               *)
(* a second factory made from the function of the first (lines 67, 79),    *)
(*   createObjectAgain = tracked(prop => ({ prop }))                       *)
(* and the object literal { prop } written without a factory.              *)
(*                                                                         *)
(* An object is a place in the heap: heap[x].props is what it holds, as    *)
(* the set of its <<key, value>> pairs.  Two objects are the same object   *)
(* when they are the same place, whatever they hold.  Beside its content   *)
(* the heap keeps, to state the properties, which function built the       *)
(* object (fn), which tracked factories returned it (by), and whether the  *)
(* caller has it (held).                                                   *)
(***************************************************************************)
Factories == {"createObject", "createObjectAgain", "createAugmented"}

\* at most MaxObjects objects are made
MaxObjects == 4

\* the arguments of the factories
Props == {23, 42}
Others == {17}

\* new WeakSet()
NoCreations == {}

\* line 110: creations.add(created)
WeakSetAdd_nothing(set, x) == set

WeakSetAdd(set, x) == set \cup {x}

\* line 114: creations.has
WeakSetHas(set, x) == x \in set

\* prop => ({ prop })
objectLiteral(prop) == {<<"prop", prop>>}

\* { ...object, other }: a new object with the pairs of the first and other
spread(props, other) == {p \in props : p[1] # "other"} \cup {<<"other", other>>}

Allocate(h, props, fn, by, held) ==
  Append(h, [props |-> props, fn |-> fn, by |-> by, held |-> held])

InitTracked ==
  /\ creations = [f \in Factories |-> NoCreations]
  /\ heap = <<>>
  /\ asked = [made |-> FALSE, factory |-> "", x |-> 0, answer |-> FALSE]

\* const untracked = { prop }
MakeLiteral ==
  /\ Len(heap) < MaxObjects
  /\ \E prop \in Props :
       heap' = Allocate(heap, objectLiteral(prop), "literal", {}, TRUE)
  /\ UNCHANGED <<creations, asked>>
  /\ UNCHANGED otherThanTracked

\* createObject(prop), createObjectAgain(prop)
CallCreateObject ==
  /\ Len(heap) < MaxObjects
  /\ \E factory \in {"createObject", "createObjectAgain"}, prop \in Props :
       LET created == Len(heap) + 1 IN
         /\ heap' = Allocate(heap, objectLiteral(prop), factory, {factory}, TRUE)
         /\ creations' = [creations EXCEPT ![factory] = WeakSetAdd(@, created)]
  /\ UNCHANGED asked
  /\ UNCHANGED otherThanTracked

\* createAugmented(prop, other): the call of createObject inside it makes
\* one object, the spread makes the other
CallCreateAugmented ==
  /\ Len(heap) + 1 < MaxObjects
  /\ \E prop \in Props, other \in Others :
       LET inner == Len(heap) + 1
           created == Len(heap) + 2
           h1 == Allocate(heap, objectLiteral(prop), "createObject", {"createObject"}, FALSE)
           c1 == [creations EXCEPT !["createObject"] = WeakSetAdd(@, inner)]
       IN  /\ heap' = Allocate(h1, spread(h1[inner].props, other), "createAugmented",
                               {"createAugmented"}, TRUE)
           /\ creations' = [c1 EXCEPT !["createAugmented"] = WeakSetAdd(@, created)]
  /\ UNCHANGED asked
  /\ UNCHANGED otherThanTracked

\* factory.created(x), for an object x the caller has
CallCreated ==
  /\ \E factory \in Factories, x \in DOMAIN heap :
       /\ heap[x].held
       /\ asked' = [made |-> TRUE, factory |-> factory, x |-> x,
                    answer |-> WeakSetHas(creations[factory], x)]
  /\ UNCHANGED <<creations, heap>>
  /\ UNCHANGED otherThanTracked

NextTracked ==
  \/ MakeLiteral
  \/ CallCreateObject
  \/ CallCreateAugmented
  \/ CallCreated

C19_AugmentedCreatedByBoth ==
  asked.made =>
    /\ heap[asked.x].fn = "createAugmented" => asked.answer
    /\ (heap[asked.x].fn = "createObject" /\ asked.factory = "createAugmented") => ~asked.answer

(***************************************************************************)
(* range: the generator, followed from its call through each next().       *)
(*                                                                         *)
(* An argument is a number, a boolean, or undefined when it is left out.   *)
(* The numbers of the model are integers.                                  *)
(***************************************************************************)
\* start and end are taken from -MaxRange .. MaxRange
MaxRange == 4

\* step is taken from -MaxStep .. MaxStep
MaxStep == 3

Number(n) == [t |-> "number", n |-> n, b |-> FALSE]
Boolean(b) == [t |-> "boolean", n |-> 0, b |-> b]
Undefined == [t |-> "undefined", n |-> 0, b |-> FALSE]

\* typeof x === 'number'
IsNumber(x) == x.t = "number"

\* !!x
Truthy(x) ==
  CASE x.t = "number" -> x.n # 0
    [] x.t = "boolean" -> x.b
    [] OTHER -> FALSE

\* Math.abs
Abs(n) == IF n < 0 THEN 0 - n ELSE n

\* line 110
rangeS(start, end) == IF IsNumber(end) THEN start.n ELSE 0

\* line 111
rangeE(start, end) == IF IsNumber(end) THEN end.n ELSE start.n

\* line 112
rangeP_negativeAsOne(step) == IF IsNumber(step) THEN (IF step.n <= 0 THEN 1 ELSE step.n) ELSE 1

rangeP(step) == IF IsNumber(step) THEN (IF step.n = 0 THEN 1 ELSE Abs(step.n)) ELSE 1

\* lines 113-115
rangeI(end, step, inclusive) ==
  IF IsNumber(step)
    THEN Truthy(inclusive)
    ELSE IF IsNumber(end) THEN Truthy(step) ELSE Truthy(end)

\* line 124
finished(fwd, i, cur, e) ==
  IF fwd
    THEN (IF i THEN cur > e ELSE cur >= e)
    ELSE (IF i THEN cur < e ELSE cur <= e)

\* lines 129-132: the values yielded from cur on, up to the return
RECURSIVE rangeLoop(_, _, _, _, _)
rangeLoop(cur, fwd, i, e, p) ==
  IF finished(fwd, i, cur, e)
    THEN <<>>
    ELSE <<cur>> \o rangeLoop(IF fwd THEN cur + p ELSE cur - p, fwd, i, e, p)

\* lines 109-135: [...range(start, end, step, inclusive)]
range(args) ==
  LET start == args[1]
      end == args[2]
      step == args[3]
      inclusive == args[4]
  IN  rangeLoop(rangeS(start, end), rangeS(start, end) < rangeE(start, end),
                rangeI(end, step, inclusive), rangeE(start, end), rangeP(step))

\* The calls: range(end), range(end, inclusive), range(start, end),
\* range(start, end, inclusive), range(start, end, step),
\* range(start, end, step, inclusive), and the last with step left undefined.
RangeNumbers == (0 - MaxRange)..MaxRange
RangeSteps == (0 - MaxStep)..MaxStep

RangeCalls ==
  {<<Number(n), Undefined, Undefined, Undefined>> : n \in RangeNumbers}
    \cup {<<Number(n), Boolean(b), Undefined, Undefined>> : n \in RangeNumbers, b \in BOOLEAN}
    \cup {<<Number(n), Number(m), Undefined, Undefined>> : n \in RangeNumbers, m \in RangeNumbers}
    \cup {<<Number(n), Number(m), Boolean(b), Undefined>> :
            n \in RangeNumbers, m \in RangeNumbers, b \in BOOLEAN}
    \cup {<<Number(n), Number(m), Number(p), Undefined>> :
            n \in RangeNumbers, m \in RangeNumbers, p \in RangeSteps}
    \cup {<<Number(n), Number(m), Number(p), Boolean(b)>> :
            n \in RangeNumbers, m \in RangeNumbers, p \in RangeSteps, b \in BOOLEAN}
    \cup {<<Number(n), Number(m), Undefined, Boolean(b)>> :
            n \in RangeNumbers, m \in RangeNumbers, b \in BOOLEAN}

NoRange ==
  [pc |-> "idle", args |-> <<Undefined, Undefined, Undefined, Undefined>>,
   e |-> 0, p |-> 0, i |-> FALSE, fwd |-> FALSE, cur |-> 0, out |-> <<>>]

InitRange == rg = NoRange

\* range(start, end, step, inclusive): lines 110-118
CallRange ==
  /\ rg.pc = "idle"
  /\ \E args \in RangeCalls :
       LET start == args[1]
           end == args[2]
           step == args[3]
           inclusive == args[4]
       IN  rg' = [pc |-> "running", args |-> args,
                  e |-> rangeE(start, end),
                  p |-> rangeP(step),
                  i |-> rangeI(end, step, inclusive),
                  fwd |-> rangeS(start, end) < rangeE(start, end),
                  cur |-> rangeS(start, end),
                  out |-> <<>>]
  /\ UNCHANGED otherThanRange

\* next(), lines 129-132: the generator yields a value
Yield ==
  /\ rg.pc = "running"
  /\ ~finished(rg.fwd, rg.i, rg.cur, rg.e)
  /\ rg' = [rg EXCEPT !.out = Append(@, rg.cur),
                      !.cur = IF rg.fwd THEN @ + rg.p ELSE @ - rg.p]
  /\ UNCHANGED otherThanRange

\* next(), line 129: the generator returns
Return ==
  /\ rg.pc = "running"
  /\ finished(rg.fwd, rg.i, rg.cur, rg.e)
  /\ rg' = [rg EXCEPT !.pc = "done"]
  /\ UNCHANGED otherThanRange

NextRange == CallRange \/ Yield \/ Return

(***************************************************************************)
(* Properties of range.  The arguments as the documentation reads them:    *)
(* a single number is the end and the start is 0, a step left out is 1, a  *)
(* negative step counts as its absolute value and a step of 0 as 1, and a  *)
(* boolean in the last position supplied is the inclusive flag.            *)
(***************************************************************************)
SaidStart == IF IsNumber(rg.args[2]) THEN rg.args[1].n ELSE 0
SaidEnd == IF IsNumber(rg.args[2]) THEN rg.args[2].n ELSE rg.args[1].n
SaidStep ==
  IF IsNumber(rg.args[3])
    THEN (IF rg.args[3].n = 0 THEN 1 ELSE Abs(rg.args[3].n))
    ELSE 1

LastSupplied == CHOOSE k \in 1..4 :
  /\ rg.args[k] # Undefined
  /\ \A j \in (k + 1)..4 : rg.args[j] = Undefined

SaidInclusive == rg.args[LastSupplied].t = "boolean" /\ rg.args[LastSupplied].b

\* the k-th value after start
Value(k, step) == IF SaidStart < SaidEnd THEN SaidStart + k * step ELSE SaidStart - k * step

\* a value that has not reached end, or is end in an inclusive range
Within(v) ==
  CASE SaidStart < SaidEnd -> v < SaidEnd \/ (SaidInclusive /\ v = SaidEnd)
    [] SaidStart > SaidEnd -> v > SaidEnd \/ (SaidInclusive /\ v = SaidEnd)
    [] OTHER -> SaidInclusive /\ v = SaidEnd

\* some start +/- k * step is end
Hits(step) == \E k \in 0..(2 * MaxRange) : Value(k, step) = SaidEnd

InRange(v) == \E k \in DOMAIN rg.out : rg.out[k] = v

RangeIs(step) ==
  /\ \A k \in DOMAIN rg.out : rg.out[k] = Value(k - 1, step) /\ Within(rg.out[k])
  /\ SaidStart # SaidEnd => ~Within(Value(Len(rg.out), step))
  /\ SaidStart = SaidEnd => Len(rg.out) = (IF SaidInclusive THEN 1 ELSE 0)
  /\ InRange(SaidEnd) <=> (SaidInclusive /\ Hits(step))

\* C20: range yields start, then values that each differ from the one before
\* by step (its absolute value, and 1 for a step of 0), upwards when start < end and downwards when start > end, and
\* stops before the first that reaches or passes end; an inclusive range also
\* yields end exactly when some start +/- k * step is end.  A single number
\* is the end with start 0, a step left out is 1, a boolean in the last
\* position supplied is the inclusive flag.
C20_RangeAsDocumented == rg.pc = "done" => RangeIs(SaidStep)

\* the call made with another step
WithStep(p) == [rg.args EXCEPT ![3] = Number(p)]

\* C21: the sign of step does not matter: range(start, end, -p) yields what
\* range(start, end, p) yields, for every p > 0, and range(start, end, 0)
\* yields what range(start, end, 1) yields, inclusive or not.
C21_SignOfStepIgnored ==
  (rg.pc = "done" /\ IsNumber(rg.args[3]) /\ rg.args[3].n <= 0) =>
    rg.out = range(WithStep(IF rg.args[3].n = 0 THEN 1 ELSE 0 - rg.args[3].n))

C21_Witness ==
  /\ rg.pc = "done"
  /\ rg.args = <<Number(4), Number(0), Number(0 - 2), Boolean(TRUE)>>
  /\ rg.out = <<4, 2, 0>>
  /\ range(WithStep(2)) = <<4, 2, 0>>

(***************************************************************************)
(* curry and curryY, applied to the function of the tests,                 *)
(*   sum = (a, b, c) => a + b + c.                                         *)
(*                                                                         *)
(* An arguments array is a place in arrays[impl]: every call builds a new  *)
(* one from its rest parameter.  A function returned for a partial call    *)
(* keeps the place of the array it closed over.  The caller makes every    *)
(* call on both implementations, so that places and partial functions      *)
(* correspond.  What a call returns is an outcome: a function (with the    *)
(* place it closed over), or the value fn returned (with the arguments fn  *)
(* was called with).                                                       *)
(***************************************************************************)
Impls == {"curry", "curryY"}

\* fn.length of (a, b, c) => a + b + c
fnLength == 3

\* the caller makes at most MaxCalls calls
MaxCalls == 3

\* the values passed as arguments
ArgValues == {1, 2}

\* the argument lists of one call: from none to fnLength arguments
ArgLists == UNION {[1..len -> ArgValues] : len \in 0..fnLength}

\* (a, b, c) => a + b + c: parameters not supplied are undefined and the sum
\* is NaN, which is 0 - 1 here
fn(args) == IF Len(args) >= 3 THEN args[1] + args[2] + args[3] ELSE 0 - 1

Returned(args) == [kind |-> "value", value |-> fn(args), with |-> args, at |-> 0]
Partial(at) == [kind |-> "function", value |-> 0, with |-> <<>>, at |-> at]

\* line 39: (...args, ...rest)
spreadArgs_restFirst(args, rest) == rest \o args

spreadArgs(args, rest) == args \o rest

\* line 39: args.length >= fn.length ? fn(...args) : (...rest) => …
curried(args, at) == IF Len(args) >= fnLength THEN Returned(args) ELSE Partial(at)

\* line 118: the function handed to the Y-combinator.  rfn is m(m), which is
\* (...a) => f(m(m), ...a) (lines 113-116): calling rfn calls this function
\* again with a function like rfn.
curryYStep(args, at) == IF Len(args) >= fnLength THEN Returned(args) ELSE Partial(at)

\* the arguments array of a call on the function that closed over `at`
\* (0: the function curry or curryY returned, which closed over none)
Captured(arrs, at) == IF at = 0 THEN <<>> ELSE arrs[at]

NoCurryCall ==
  [made |-> FALSE, said |-> <<>>, out |-> [impl \in Impls |-> Partial(0)]]

InitCurry ==
  /\ arrays = [impl \in Impls |-> <<>>]
  /\ partials = {[said |-> <<>>, at |-> 0]}
  /\ cr = NoCurryCall

\* a call of a function the caller has, curry(fn) and curryY(fn) themselves
\* or one returned by an earlier call, with the arguments rest
CallCurried ==
  /\ Len(arrays["curry"]) < MaxCalls
  /\ \E f \in partials, rest \in ArgLists :
       LET at == Len(arrays["curry"]) + 1
           argsC == spreadArgs(Captured(arrays["curry"], f.at), rest)
           argsY == spreadArgs(Captured(arrays["curryY"], f.at), rest)
           outC == curried(argsC, at)
           outY == curryYStep(argsY, at)
           said == Append(f.said, rest)
       IN  /\ arrays' = [arrays EXCEPT !["curry"] = Append(@, argsC),
                                       !["curryY"] = Append(@, argsY)]
           /\ cr' = [made |-> TRUE, said |-> said,
                     out |-> [impl \in Impls |-> IF impl = "curry" THEN outC ELSE outY]]
           /\ partials' = IF outC.kind = "function" \/ outY.kind = "function"
                            THEN partials \cup {[said |-> said, at |-> at]}
                            ELSE partials
  /\ UNCHANGED otherThanCurry

(***************************************************************************)
(* Properties of curry and curryY.                                         *)
(***************************************************************************)
\* the arguments given so far, over the successive calls
RECURSIVE Flatten(_)
Flatten(lists) == IF lists = <<>> THEN <<>> ELSE Head(lists) \o Flatten(Tail(lists))

Given == Flatten(cr.said)

Classes == {"Point2dClass", "Point2d", "Point3d", "Point3dClass", "Point3dFrozen"}

\* class … extends …
Super(cls) ==
  CASE cls = "Point2dClass" -> "Object"
    [] cls = "Point2d" -> "Point2dClass"
    [] cls = "Point3d" -> "Point2d"
    [] cls = "Point3dClass" -> "Point2d"
    [] cls = "Point3dFrozen" -> "Point3dClass"

\* the classes that frozen returned
ByFrozen == {"Point2d", "Point3dFrozen"}

\* the properties a constructor of the tests assigns, from its arguments
Assigns(cls) ==
  CASE cls = "Point2dClass" -> {"x", "y"}
    [] cls \in {"Point3d", "Point3dClass"} -> {"z"}
    [] OTHER -> {}

PropertyNames == {"x", "y", "z", "w"}
Coordinates == {1, 2}
Replacements == {42}

NoProps == [name \in {} |-> 0]

\* Object.freeze(this)
freeze(obj) == [obj EXCEPT !.frozen = TRUE]

\* obj.name = value, in strict mode: TypeError on a frozen object
assign(obj, name, value) ==
  IF obj.frozen
    THEN [obj EXCEPT !.threw = TRUE]
    ELSE [obj EXCEPT !.props = [k \in DOMAIN obj.props \cup {name} |->
                                  IF k = name THEN value ELSE obj.props[k]]]

\* delete obj.name, in strict mode: TypeError when obj is frozen and has name
delete(obj, name) ==
  IF obj.frozen /\ name \in DOMAIN obj.props
    THEN [obj EXCEPT !.threw = TRUE]
    ELSE [obj EXCEPT !.props = [k \in DOMAIN obj.props \ {name} |-> obj.props[k]]]

\* this.x = x; this.y = y, and this.z = z: the assignments of a constructor
RECURSIVE assignAll(_, _, _)
assignAll(obj, names, args) ==
  IF names = {} \/ obj.threw
    THEN obj
    ELSE LET name == CHOOSE k \in names : TRUE
         IN  assignAll(assign(obj, name, args[name]), names \ {name}, args)

\* line 163: new.target === ${name}
isNewTarget_always(newTarget, cls) == TRUE

isNewTarget(newTarget, cls) == newTarget = cls

\* the constructor of cls, run for `new newTarget(...)`: super(...args)
\* first; then a class that frozen returned freezes this if it is the
\* class that new was applied to (lines 161-166), and a class of the tests
\* makes its assignments
RECURSIVE construct(_, _, _, _)
construct(newTarget, cls, obj, args) ==
  IF cls = "Object"
    THEN obj
    ELSE LET built == construct(newTarget, Super(cls), obj, args) IN
           IF built.threw
             THEN built
             ELSE IF cls \in ByFrozen
                    THEN (IF isNewTarget(newTarget, cls) THEN freeze(built) ELSE built)
                    ELSE assignAll(built, Assigns(cls), args)

NoInstance == [cls |-> "", props |-> NoProps, frozen |-> FALSE, threw |-> FALSE]
NoAttempt == [kind |-> "", name |-> "", value |-> 0, threw |-> FALSE, before |-> NoProps]

InitFrozen ==
  /\ inst = NoInstance
  /\ attempt = NoAttempt

\* const p = new cls(x, y, z)
New ==
  /\ \E cls \in Classes, args \in [{"x", "y", "z"} -> Coordinates] :
       inst' = construct(cls, cls, [NoInstance EXCEPT !.cls = cls], args)
  /\ attempt' = NoAttempt
  /\ UNCHANGED otherThanFrozen

\* p.name = value
Assign ==
  /\ inst.cls # ""
  /\ ~inst.threw
  /\ \E name \in PropertyNames, value \in Replacements :
       LET after == assign(inst, name, value) IN
         /\ inst' = [after EXCEPT !.threw = FALSE]
         /\ attempt' = [kind |-> "assign", name |-> name, value |-> value,
                        threw |-> after.threw, before |-> inst.props]
  /\ UNCHANGED otherThanFrozen

\* delete p.name
Delete ==
  /\ inst.cls # ""
  /\ ~inst.threw
  /\ \E name \in PropertyNames :
       LET after == delete(inst, name) IN
         /\ inst' = [after EXCEPT !.threw = FALSE]
         /\ attempt' = [kind |-> "delete", name |-> name, value |-> 0,
                        threw |-> after.threw, before |-> inst.props]
  /\ UNCHANGED otherThanFrozen

NextFrozen == New \/ Assign \/ Delete

(***************************************************************************)
(* Properties of frozen.                                                   *)
(***************************************************************************)
Made == inst.cls # ""

\* the properties the constructors of a class and of its ancestors assign
RECURSIVE AllAssigned(_)
AllAssigned(cls) == IF cls = "Object" THEN {} ELSE Assigns(cls) \cup AllAssigned(Super(cls))

\* C23: an instance is frozen exactly when new was applied to a class that
\* frozen returned: every later change, addition or deletion of a property
\* of it throws and leaves it as it was.  An instance of a plain subclass of
\* a frozen class is not frozen: its constructor has added its properties
\* and the inherited ones can be written.  An instance of the frozen
\* subclass of a frozen class has the properties of base and child, set
\* before it was frozen.
C23_FrozenWhenConstructedDirectly ==
  Made =>
    /\ ~inst.threw
    /\ inst.frozen <=> inst.cls \in ByFrozen
    /\ attempt.kind = "" => DOMAIN inst.props = AllAssigned(inst.cls)
    /\ (inst.frozen /\ attempt.kind # "") =>
         /\ inst.props = attempt.before
         /\ DOMAIN inst.props = AllAssigned(inst.cls)
         /\ attempt.threw <=> (attempt.kind = "assign" \/ attempt.name \in DOMAIN attempt.before)
    /\ (~inst.frozen /\ attempt.kind = "assign") =>
         /\ ~attempt.threw
         /\ inst.props[attempt.name] = attempt.value
    /\ (~inst.frozen /\ attempt.kind = "delete") =>
         /\ ~attempt.threw
         /\ attempt.name \notin DOMAIN inst.props

\* p = new Point3d(1, 2, 1) of the frozen subclass, then p.x = 42
C23_Witness ==
  /\ inst.cls = "Point3dFrozen"
  /\ inst.frozen
  /\ inst.props = [name \in {"x", "y", "z"} |-> IF name = "y" THEN 2 ELSE 1]
  /\ attempt.kind = "assign"
  /\ attempt.name = "x"
  /\ attempt.threw

(***************************************************************************)
(* The specifications.  The parts of the library share no state: each      *)
(* specification runs the operations of one part from the initial state of *)
(* all of them.                                                            *)
(***************************************************************************)
Init ==
  /\ InitNumbers
  /\ InitOrdinal
  /\ InitEmitter
  /\ InitTracked
  /\ InitRange
  /\ InitCurry
  /\ InitFrozen

Next == CallWordinal \/ Forget

\* wordinal
Spec == Init /\ [][Next]_vars

\* ordinal
SpecOrdinal == Init /\ [][CallOrdinal]_vars

\* customElement
SpecEmitter == Init /\ [][NextEmitter]_vars

\* tracked
SpecTracked == Init /\ [][NextTracked]_vars

\* range
SpecRange == Init /\ [][NextRange]_vars

\* curry, curryY
SpecCurry == Init /\ [][CallCurried]_vars

\* frozen
SpecFrozen == Init /\ [][NextFrozen]_vars
====
